---- MODULE Spec2Model ----
(***************************************************************************)
(* DownstreamQueue of nghttpx (src/src/shrpx_downstream_queue.cc): the     *)
(* per-host admission queue of backend connections.  The queue state is    *)
(* the registry downstreams_, the map host_entries_ and, per Downstream,   *)
(* its dispatch state and blocked link.  One action per public method; the *)
(* caller of the queue (the upstream) is the environment that picks the    *)
(* calls.                                                                  *)
(***************************************************************************)
EXTENDS Integers, Sequences, FiniteSets, TLC

\* ------------------------------------------------------------------ bounds
\* Number of Downstream objects the caller ever creates.
MaxHandles == 3
\* Largest conn_max_per_host argument given to the constructor.
MaxCap == 2

\* Request authorities of the submitted requests.
Hosts == {"a", "b"}
Handles == 1..MaxHandles

\* A null Downstream* / BlockedLink::downstream.
nullptr == 0

\* std::numeric_limits<size_t>::max().  size_t is narrowed to 30 bits so that
\* the wrap-around arithmetic stays inside the model checker's integers.
SIZE_MAX == 1073741823

\* ------------------------------------------------------------ dispatch states
DISPATCH_NONE == "DISPATCH_NONE"
DISPATCH_PENDING == "DISPATCH_PENDING"
DISPATCH_ACTIVE == "DISPATCH_ACTIVE"
DISPATCH_BLOCKED == "DISPATCH_BLOCKED"
DISPATCH_FAILURE == "DISPATCH_FAILURE"

VARIABLES
  conn_max_per_host_,  \* the cap (SIZE_MAX when configured as 0)
  unified_host_,       \* TRUE: one key for every host
  downstreams_,        \* DList<Downstream>: the registry, head first
  host_entries_,       \* std::map<std::string, HostEntry>
  dispatch_state,      \* Downstream::dispatch_state_ of each live Downstream
  authority,           \* Downstream::get_request_http2_authority() of each
  blocked_link_,       \* Downstream::blocked_link_ of each is non-null
  deleted,             \* Downstream objects already destroyed
  promoted,            \* handles returned by remove_and_get_blocked, not yet marked
  last,                \* the last call: its name, arguments and return value
  order,               \* history: live waiters in the order of their mark_blocked
  scen                 \* history: progress of the run along Scenario (-1: left it)

qvars == <<downstreams_, host_entries_, dispatch_state, blocked_link_, deleted>>
cfgvars == <<conn_max_per_host_, unified_host_>>
vars == <<conn_max_per_host_, unified_host_, downstreams_, host_entries_,
          dispatch_state, authority, blocked_link_, deleted, promoted, last,
          order, scen>>

\* ------------------------------------------------------------------ helpers
\* ++ent.num_active on a size_t: wraps around.
SizeInc(n) == (n + 1) % (SIZE_MAX + 1)

\* Faulty variant of SizeDec: the decrement is left out.
SizeDec_skipped(n) == n

\* --ent.num_active on a size_t: wraps around.
SizeDec(n) == (n - 1) % (SIZE_MAX + 1)

\* HostEntry::HostEntry(): num_active(0), empty blocked list.
HostEntry == [num_active |-> 0, blocked |-> << >>]

\* new BlockedLink{} followed by Downstream::attach_blocked_link.
BlockedLink(h) == [downstream |-> h]

\* DList::remove: unlink one element, the others keep their order.
dlist_remove(list, x) == SelectSeq(list, LAMBDA e : e # x)

\* DownstreamQueue::DownstreamQueue: 0 means no limit.
Construct(conn_max_per_host) ==
  IF conn_max_per_host = 0 THEN SIZE_MAX ELSE conn_max_per_host

\* Faulty variant of make_host_key: ignores unified_host_.
make_host_key_per_host(host) == host

\* make_host_key(const std::string &)
make_host_key(host) == IF unified_host_ THEN "" ELSE host

\* make_host_key(Downstream *)
downstream_host_key(h) == make_host_key(authority[h])

\* find_host_entry: the map after the lookup, which inserts a fresh HostEntry
\* when the key is absent.
find_host_entry(entries, host) ==
  IF host \in DOMAIN entries THEN entries ELSE entries @@ (host :> HostEntry)

\* Faulty variant of remove_host_entry_if_empty: never erases.
remove_host_entry_never(entries, host) == entries

\* remove_host_entry_if_empty: the condition it tests ...
host_entry_empty(ent) == ent.blocked = << >> /\ ent.num_active = 0

\* ... and the map it leaves.
remove_host_entry_if_empty(entries, host) ==
  IF host_entry_empty(entries[host])
    THEN [k \in DOMAIN entries \ {host} |-> entries[k]]
    ELSE entries

\* A lookup that inserts the key when it is absent, as operator[] would.
host_entries_index(entries, key) ==
  IF key \in DOMAIN entries
    THEN entries
    ELSE entries @@ (key :> [num_active |-> 0, blocked |-> << >>])

\* host_entries_.find(key) in can_activate: the map after the lookup, which
\* never inserts.
host_entries_find(entries, key) == entries

\* Faulty variant of can_activate: admits at the cap (<= for <).
can_activate_at_cap(host) ==
  LET key == IF unified_host_ THEN "" ELSE host
  IN IF key \notin DOMAIN host_entries_
       THEN TRUE
       ELSE host_entries_[key].num_active <= conn_max_per_host_

\* can_activate(host): the value it returns.
can_activate(host) ==
  LET key == make_host_key(host)
  IN IF key \notin DOMAIN host_entries_
       THEN TRUE
       ELSE host_entries_[key].num_active < conn_max_per_host_

\* Downstream::~Downstream: a Downstream that still holds a blocked link
\* detaches it, so the link stays in its list with an empty downstream.
destroy_downstream(entries, h) ==
  IF blocked_link_[h]
    THEN [k \in DOMAIN entries |->
            [entries[k] EXCEPT !.blocked =
               [i \in 1..Len(@) |->
                  IF @[i].downstream = h THEN BlockedLink(nullptr) ELSE @[i]]]]
    ELSE entries

\* Faulty variant of scan_blocked: the scan ends at the first empty link.
scan_blocked_one(blocked) ==
  IF blocked = << >>
    THEN [blocked |-> << >>, next |-> nullptr, dropped |-> 0]
    ELSE IF Head(blocked).downstream = nullptr
      THEN [blocked |-> Tail(blocked), next |-> nullptr, dropped |-> 1]
      ELSE [blocked |-> Tail(blocked), next |-> Head(blocked).downstream,
            dropped |-> 0]

\* The for loop of remove_and_get_blocked over ent.blocked: a link with an
\* empty downstream is unlinked and the scan goes on with the next link; the
\* first live link is unlinked and its Downstream is the result.  `dropped`
\* counts the links unlinked for being empty.
RECURSIVE scan_blocked(_)
scan_blocked(blocked) ==
  IF blocked = << >>
    THEN [blocked |-> << >>, next |-> nullptr, dropped |-> 0]
    ELSE IF Head(blocked).downstream = nullptr
      THEN [scan_blocked(Tail(blocked)) EXCEPT !.dropped = @ + 1]
      ELSE [blocked |-> Tail(blocked), next |-> Head(blocked).downstream,
            dropped |-> 0]

\* Downstream::Downstream: a new object starts in DISPATCH_NONE with no
\* blocked link.
new_downstream(h) == dispatch_state @@ (h :> DISPATCH_NONE)

\* The fields of the Downstream objects left once h is destroyed.
without(field, h) == [x \in DOMAIN field \ {h} |-> field[x]]

\* ------------------------------------------------- the queue's operations
\* What a call leaves in `last`.
Call(op, h, host, next, can, dropped, path) ==
  [op |-> op, h |-> h, host |-> host, next |-> next, can |-> can,
   dropped |-> dropped, path |-> path]

\* Faulty variant of add_pending: links the handle at the head.
add_pending_at_head(h) ==
  /\ dispatch_state' = (dispatch_state @@ (h :> DISPATCH_PENDING))
  /\ downstreams_' = <<h>> \o downstreams_
  /\ blocked_link_' = blocked_link_ @@ (h :> FALSE)
  /\ UNCHANGED <<host_entries_, deleted>>

add_pending(h) ==
  /\ dispatch_state' = [new_downstream(h) EXCEPT ![h] = DISPATCH_PENDING]
  /\ downstreams_' = Append(downstreams_, h)
  /\ blocked_link_' = blocked_link_ @@ (h :> FALSE)
  /\ UNCHANGED <<host_entries_, deleted>>

\* Faulty variant of mark_failure: the handle is made PENDING again.
mark_failure_pending(h) ==
  /\ dispatch_state' = [dispatch_state EXCEPT ![h] = DISPATCH_PENDING]
  /\ UNCHANGED <<downstreams_, host_entries_, blocked_link_, deleted>>

mark_failure(h) ==
  /\ dispatch_state' = [dispatch_state EXCEPT ![h] = DISPATCH_FAILURE]
  /\ UNCHANGED <<downstreams_, host_entries_, blocked_link_, deleted>>

\* Faulty variant of mark_active: num_active is not incremented.
mark_active_uncounted(h) ==
  LET key == downstream_host_key(h)
  IN /\ host_entries_' = find_host_entry(host_entries_, key)
     /\ dispatch_state' = [dispatch_state EXCEPT ![h] = DISPATCH_ACTIVE]
     /\ UNCHANGED <<downstreams_, blocked_link_, deleted>>

mark_active(h) ==
  LET key == downstream_host_key(h)
      ents == find_host_entry(host_entries_, key)
  IN /\ host_entries_' = [ents EXCEPT ![key].num_active = SizeInc(@)]
     /\ dispatch_state' = [dispatch_state EXCEPT ![h] = DISPATCH_ACTIVE]
     /\ UNCHANGED <<downstreams_, blocked_link_, deleted>>

\* Faulty variant of mark_blocked: links the new waiter at the head.
mark_blocked_at_head(h) ==
  LET key == downstream_host_key(h)
      ents == find_host_entry(host_entries_, key)
  IN /\ ~blocked_link_[h]
     /\ dispatch_state' = [dispatch_state EXCEPT ![h] = DISPATCH_BLOCKED]
     /\ blocked_link_' = [blocked_link_ EXCEPT ![h] = TRUE]
     /\ host_entries_' =
          [ents EXCEPT ![key].blocked = <<BlockedLink(h)>> \o @]
     /\ UNCHANGED <<downstreams_, deleted>>

\* Faulty variant of mark_blocked: the dispatch state is not set.
mark_blocked_stateless(h) ==
  LET key == downstream_host_key(h)
      ents == find_host_entry(host_entries_, key)
  IN /\ ~blocked_link_[h]
     /\ blocked_link_' = [blocked_link_ EXCEPT ![h] = TRUE]
     /\ host_entries_' =
          [ents EXCEPT ![key].blocked = Append(@, BlockedLink(h))]
     /\ UNCHANGED <<downstreams_, deleted, dispatch_state>>

\* attach_blocked_link asserts that the Downstream holds no link yet.
mark_blocked(h) ==
  LET key == downstream_host_key(h)
      ents == find_host_entry(host_entries_, key)
  IN /\ ~blocked_link_[h]
     /\ dispatch_state' = [dispatch_state EXCEPT ![h] = DISPATCH_BLOCKED]
     /\ blocked_link_' = [blocked_link_ EXCEPT ![h] = TRUE]
     /\ host_entries_' =
          [ents EXCEPT ![key].blocked = Append(@, BlockedLink(h))]
     /\ UNCHANGED <<downstreams_, deleted>>

\* Faulty variant of release: the test of num_active against the cap is
\* left out.
release_uncapped(h) ==
  LET key == downstream_host_key(h)
      ents == find_host_entry(host_entries_, key)
      dec == [ents EXCEPT ![key].num_active = SizeDec(@)]
      scan == scan_blocked(dec[key].blocked)
      scanned == [dec EXCEPT ![key].blocked = scan.blocked]
  IN IF dispatch_state[h] # DISPATCH_ACTIVE
       THEN [entries |-> host_entries_, next |-> nullptr, dropped |-> 0,
             path |-> "inactive"]
     ELSE IF host_entry_empty(dec[key])
       THEN [entries |-> remove_host_entry_if_empty(dec, key),
             next |-> nullptr, dropped |-> 0, path |-> "erased"]
     ELSE IF scan.next = nullptr
       THEN [entries |-> scanned, next |-> nullptr, dropped |-> scan.dropped,
             path |-> "exhausted"]
     ELSE [entries |-> remove_host_entry_if_empty(scanned, key),
           next |-> scan.next, dropped |-> scan.dropped,
           path |-> "promoted"]

\* Faulty variant of release: the dispatch state is not tested, every
\* release takes the path of an ACTIVE handle.
release_uncounted(h) ==
  LET key == downstream_host_key(h)
      ents == find_host_entry(host_entries_, key)
      dec == [ents EXCEPT ![key].num_active = SizeDec(@)]
  IN IF host_entry_empty(dec[key])
       THEN [entries |-> remove_host_entry_if_empty(dec, key),
             next |-> nullptr, dropped |-> 0, path |-> "erased"]
       ELSE [entries |-> dec, next |-> nullptr, dropped |-> 0,
             path |-> "full"]

\* The result of remove_and_get_blocked(h): the map it leaves (before h is
\* destroyed), the Downstream it returns and the return statement it leaves
\* by: "inactive" (line 129), "erased" (139), "full" (143), "promoted" (158)
\* or "exhausted" (160).
release(h) ==
  LET key == downstream_host_key(h)
      ents == find_host_entry(host_entries_, key)
      dec == [ents EXCEPT ![key].num_active = SizeDec(@)]
      scan == scan_blocked(dec[key].blocked)
      scanned == [dec EXCEPT ![key].blocked = scan.blocked]
  IN IF dispatch_state[h] # DISPATCH_ACTIVE
       THEN [entries |-> host_entries_, next |-> nullptr, dropped |-> 0,
             path |-> "inactive"]
     ELSE IF host_entry_empty(dec[key])
       THEN [entries |-> remove_host_entry_if_empty(dec, key),
             next |-> nullptr, dropped |-> 0, path |-> "erased"]
     ELSE IF dec[key].num_active >= conn_max_per_host_
       THEN [entries |-> dec, next |-> nullptr, dropped |-> 0,
             path |-> "full"]
     ELSE IF scan.next = nullptr
       THEN [entries |-> scanned, next |-> nullptr, dropped |-> scan.dropped,
             path |-> "exhausted"]
     ELSE [entries |-> remove_host_entry_if_empty(scanned, key),
           next |-> scan.next, dropped |-> scan.dropped,
           path |-> "promoted"]

\* Faulty variant of remove_and_get_blocked: the returned Downstream keeps
\* its blocked_link_.
remove_and_get_blocked_attached(h) ==
  LET r == release(h)
  IN /\ dispatch_state[h] # DISPATCH_NONE
     /\ downstreams_' = dlist_remove(downstreams_, h)
     /\ host_entries_' = destroy_downstream(r.entries, h)
     /\ blocked_link_' = without(blocked_link_, h)
     /\ dispatch_state' = without(dispatch_state, h)
     /\ deleted' = deleted \cup {h}

\* remove_and_get_blocked(h): the registry loses h, the map is left as
\* release(h) computes it, the returned Downstream is detached from its link,
\* and h is destroyed when the function returns (delptr).
remove_and_get_blocked(h) ==
  LET r == release(h)
  IN /\ dispatch_state[h] # DISPATCH_NONE
     /\ downstreams_' = dlist_remove(downstreams_, h)
     /\ host_entries_' = destroy_downstream(r.entries, h)
     /\ blocked_link_' = [x \in DOMAIN blocked_link_ \ {h} |->
                            IF x = r.next THEN FALSE ELSE blocked_link_[x]]
     /\ dispatch_state' = without(dispatch_state, h)
     /\ deleted' = deleted \cup {h}

\* ------------------------------------------------------------ the scenario
\* The calls of the spec's concrete scenario (cap 2, not unified, host "a").
Scenario ==
  << <<"add_pending", 1, "a">>, <<"add_pending", 2, "a">>,
     <<"add_pending", 3, "a">>, <<"can_activate", 0, "a">>,
     <<"mark_active", 1, "">>, <<"can_activate", 0, "a">>,
     <<"mark_active", 2, "">>, <<"can_activate", 0, "a">>,
     <<"mark_blocked", 3, "">>, <<"remove_and_get_blocked", 1, "">>,
     <<"mark_active", 3, "">>, <<"remove_and_get_blocked", 2, "">>,
     <<"remove_and_get_blocked", 3, "">> >>

\* The run follows Scenario as long as each call is the scenario's next call.
Follow(op, h, host) ==
  scen' = IF /\ scen >= 0
             /\ scen < Len(Scenario)
             /\ Scenario[scen + 1] = <<op, h, host>>
            THEN scen + 1
            ELSE -1

\* --------------------------------------------------------------- the caller
\* The Downstream the caller creates next.
Live == DOMAIN dispatch_state

Fresh(h) == h = Cardinality(Live) + Cardinality(deleted) + 1

InRegistry(h) == \E i \in 1..Len(downstreams_) : downstreams_[i] = h

\* The handle the caller may mark: a new one, or the one just handed out
\* for promotion.
Markable(h) ==
  /\ InRegistry(h)
  /\ IF promoted = {} THEN dispatch_state[h] = DISPATCH_PENDING
                      ELSE h \in promoted

\* Where the handle of a mark call comes from: a new one, or one returned
\* for promotion.
Origin(h) == IF h \in promoted THEN "promoted" ELSE "new"

Submit(h, host) ==
  /\ promoted = {}
  /\ Fresh(h)
  /\ authority' = authority @@ (h :> host)
  /\ add_pending(h)
  /\ last' = Call("add_pending", h, host, nullptr, FALSE, 0, "")
  /\ Follow("add_pending", h, host)
  /\ UNCHANGED <<cfgvars, promoted, order>>

Fail(h) ==
  /\ Markable(h)
  /\ mark_failure(h)
  /\ promoted' = promoted \ {h}
  /\ last' = Call("mark_failure", h, "", nullptr, FALSE, 0, Origin(h))
  /\ Follow("mark_failure", h, "")
  /\ UNCHANGED <<cfgvars, authority, order>>

Activate(h) ==
  /\ Markable(h)
  /\ h \in promoted \/ can_activate(authority[h])
  /\ mark_active(h)
  /\ promoted' = promoted \ {h}
  /\ last' = Call("mark_active", h, "", nullptr, FALSE, 0, Origin(h))
  /\ Follow("mark_active", h, "")
  /\ UNCHANGED <<cfgvars, authority, order>>

Block(h) ==
  /\ Markable(h)
  /\ mark_blocked(h)
  /\ promoted' = promoted \ {h}
  /\ order' = Append(order, h)
  /\ last' = Call("mark_blocked", h, "", nullptr, FALSE, 0, Origin(h))
  /\ Follow("mark_blocked", h, "")
  /\ UNCHANGED <<cfgvars, authority>>

Release(h) ==
  /\ promoted = {}
  /\ InRegistry(h)
  /\ remove_and_get_blocked(h)
  /\ promoted' = IF release(h).next = nullptr THEN {} ELSE {release(h).next}
  /\ order' = SelectSeq(order, LAMBDA x : x # h /\ x # release(h).next)
  /\ last' = Call("remove_and_get_blocked", h, "", release(h).next, FALSE,
                  release(h).dropped, release(h).path)
  /\ Follow("remove_and_get_blocked", h, "")
  /\ authority' = without(authority, h)
  /\ UNCHANGED cfgvars

Query(host) ==
  /\ host_entries_' = host_entries_find(host_entries_, make_host_key(host))
  /\ last' = Call("can_activate", nullptr, host, nullptr, can_activate(host), 0, "")
  /\ Follow("can_activate", nullptr, host)
  /\ UNCHANGED <<cfgvars, downstreams_, dispatch_state, blocked_link_,
                 deleted, authority, promoted, order>>

\* ------------------------------------------------------- the specification
Init ==
  /\ \E c \in 0..MaxCap : conn_max_per_host_ = Construct(c)
  /\ unified_host_ \in BOOLEAN
  /\ downstreams_ = << >>
  /\ host_entries_ = << >>
  /\ dispatch_state = << >>
  /\ authority = << >>
  /\ blocked_link_ = << >>
  /\ deleted = {}
  /\ promoted = {}
  /\ last = Call("none", nullptr, "", nullptr, FALSE, 0, "")
  /\ order = << >>
  /\ scen = IF conn_max_per_host_ = 2 /\ ~unified_host_ THEN 0 ELSE -1

Next ==
  \/ \E h \in Handles, host \in Hosts : Submit(h, host)
  \/ \E h \in Handles : Fail(h)
  \/ \E h \in Handles : Activate(h)
  \/ \E h \in Handles : Block(h)
  \/ \E h \in Handles : Release(h)
  \/ \E host \in Hosts : Query(host)

Spec == Init /\ [][Next]_vars

\* ------------------------------------------------- the interleaving caller
\* The caller that serves other requests between a release and the mark of
\* the handle the release returned: a new handle can be submitted and marked
\* while promoted handles wait for their mark.
MarkableInterleaved(h) ==
  /\ InRegistry(h)
  /\ dispatch_state[h] = DISPATCH_PENDING \/ h \in promoted

InterleavedSubmit(h, host) ==
  /\ Fresh(h)
  /\ authority' = authority @@ (h :> host)
  /\ add_pending(h)
  /\ last' = Call("add_pending", h, host, nullptr, FALSE, 0, "")
  /\ Follow("add_pending", h, host)
  /\ UNCHANGED <<cfgvars, promoted, order>>

InterleavedFail(h) ==
  /\ MarkableInterleaved(h)
  /\ mark_failure(h)
  /\ promoted' = promoted \ {h}
  /\ last' = Call("mark_failure", h, "", nullptr, FALSE, 0, Origin(h))
  /\ Follow("mark_failure", h, "")
  /\ UNCHANGED <<cfgvars, authority, order>>

InterleavedActivate(h) ==
  /\ MarkableInterleaved(h)
  /\ h \in promoted \/ can_activate(authority[h])
  /\ mark_active(h)
  /\ promoted' = promoted \ {h}
  /\ last' = Call("mark_active", h, "", nullptr, FALSE, 0, Origin(h))
  /\ Follow("mark_active", h, "")
  /\ UNCHANGED <<cfgvars, authority, order>>

InterleavedBlock(h) ==
  /\ MarkableInterleaved(h)
  /\ mark_blocked(h)
  /\ promoted' = promoted \ {h}
  /\ order' = Append(order, h)
  /\ last' = Call("mark_blocked", h, "", nullptr, FALSE, 0, Origin(h))
  /\ Follow("mark_blocked", h, "")
  /\ UNCHANGED <<cfgvars, authority>>

InterleavedRelease(h) ==
  /\ InRegistry(h)
  /\ h \notin promoted
  /\ remove_and_get_blocked(h)
  /\ promoted' = IF release(h).next = nullptr
                   THEN promoted ELSE promoted \cup {release(h).next}
  /\ order' = SelectSeq(order, LAMBDA x : x # h /\ x # release(h).next)
  /\ last' = Call("remove_and_get_blocked", h, "", release(h).next, FALSE,
                  release(h).dropped, release(h).path)
  /\ Follow("remove_and_get_blocked", h, "")
  /\ authority' = without(authority, h)
  /\ UNCHANGED cfgvars

NextInterleaved ==
  \/ \E h \in Handles, host \in Hosts : InterleavedSubmit(h, host)
  \/ \E h \in Handles : InterleavedFail(h)
  \/ \E h \in Handles : InterleavedActivate(h)
  \/ \E h \in Handles : InterleavedBlock(h)
  \/ \E h \in Handles : InterleavedRelease(h)
  \/ \E host \in Hosts : Query(host)

SpecInterleaved == Init /\ [][NextInterleaved]_vars

\* ------------------------------------------------------- the gating caller
\* The caller that blocks a new handle only when can_activate returns false.
GatedBlock(h) ==
  /\ promoted = {}
  /\ Markable(h)
  /\ ~can_activate(authority[h])
  /\ Block(h)

NextGated ==
  \/ \E h \in Handles, host \in Hosts : Submit(h, host)
  \/ \E h \in Handles : Fail(h)
  \/ \E h \in Handles : Activate(h)
  \/ \E h \in Handles : GatedBlock(h)
  \/ \E h \in Handles : Release(h)
  \/ \E host \in Hosts : Query(host)

SpecGated == Init /\ [][NextGated]_vars

\* ---------------------------------------- the caller that breaks the contract
\* The calls the contract forbids, next to the calls of the caller above.
\* The process runs: no assertion has failed.
Running == last.path # "assert"

\* mark_active on a handle of the registry that is already ACTIVE or in
\* FAILURE: the code has no check and runs as for any handle. The calls are
\* explored while num_active of the key does not exceed its ACTIVE handles,
\* which keeps the counter, that nothing else limits here, in a finite range.
MisuseActivate(h) ==
  /\ promoted = {}
  /\ Running
  /\ InRegistry(h)
  /\ dispatch_state[h] \in {DISPATCH_ACTIVE, DISPATCH_FAILURE}
  /\ find_host_entry(host_entries_, downstream_host_key(h))
         [downstream_host_key(h)].num_active
       <= Cardinality({x \in Live :
                         /\ dispatch_state[x] = DISPATCH_ACTIVE
                         /\ downstream_host_key(x) = downstream_host_key(h)})
  /\ mark_active(h)
  /\ last' = Call("mark_active", h, "", nullptr, FALSE, 0, "misuse")
  /\ Follow("mark_active", h, "")
  /\ UNCHANGED <<cfgvars, authority, promoted, order>>

\* remove_and_get_blocked on a Downstream that was created and never given to
\* add_pending (DISPATCH_NONE): the assertion at the head of the not-ACTIVE
\* path fails and the process stops.
MisuseRelease(h) ==
  /\ promoted = {}
  /\ Running
  /\ Fresh(h)
  /\ new_downstream(h)[h] = DISPATCH_NONE
  /\ last' = Call("remove_and_get_blocked", h, "", nullptr, FALSE, 0, "assert")
  /\ Follow("remove_and_get_blocked", h, "")
  /\ UNCHANGED <<cfgvars, qvars, authority, promoted, order>>

NextMisuse ==
  \/ \E h \in Handles, host \in Hosts : Running /\ Submit(h, host)
  \/ \E h \in Handles : Running /\ Fail(h)
  \/ \E h \in Handles : Running /\ Activate(h)
  \/ \E h \in Handles : Running /\ Block(h)
  \/ \E h \in Handles : Running /\ Release(h)
  \/ \E host \in Hosts : Running /\ Query(host)
  \/ \E h \in Handles : MisuseActivate(h)
  \/ \E h \in Handles : MisuseRelease(h)

SpecMisuse == Init /\ [][NextMisuse]_vars

\* ---------------------------------------------------------------- observers
\* The destination keys a handle or a query can map to.
Keys == Hosts \cup {""}

\* num_active of key k; 0 when the map has no HostEntry for k.
NumActive(k) ==
  IF k \in DOMAIN host_entries_ THEN host_entries_[k].num_active ELSE 0

\* The blocked list of key k; empty when the map has no HostEntry for k.
Blocked(k) ==
  IF k \in DOMAIN host_entries_ THEN host_entries_[k].blocked ELSE << >>

\* The cap is finite: the constructor was given a value >= 1.
FiniteCap == conn_max_per_host_ # SIZE_MAX

\* The handles of the registry, as get_downstreams() iterates them.
Registry == {downstreams_[i] : i \in 1..Len(downstreams_)}

\* The handles of the registry in dispatch state st whose key is k.
InState(st, k) ==
  {h \in Registry : dispatch_state[h] = st /\ downstream_host_key(h) = k}

\* Positions of the links of a blocked list whose downstream is empty.
Stale(bl) == {i \in 1..Len(bl) : bl[i].downstream = nullptr}

\* The first live handle behind position i of a blocked list, if any.
FirstLiveBehind(bl, i) ==
  LET live == {j \in (i + 1)..Len(bl) : bl[j].downstream # nullptr}
  IN IF live = {} THEN nullptr
     ELSE bl[CHOOSE j \in live : \A x \in live : j <= x].downstream

\* A step that releases an ACTIVE handle of key k and leaves the key's
\* num_active below the cap.
ReleasesActive(k) ==
  /\ last'.op = "remove_and_get_blocked"
  /\ last'.h \in Live
  /\ dispatch_state[last'.h] = DISPATCH_ACTIVE
  /\ downstream_host_key(last'.h) = k
  /\ NumActive(k) - 1 < conn_max_per_host_

\* What the claim says of the link at position i of the blocked list of k
\* after such a step: the link is gone, num_active is the decremented value
\* and the first live handle behind the link is returned.
StaleLinkHandled(k, i) ==
  /\ i <= Len(Blocked(k)) - Len(Blocked(k)')
  /\ NumActive(k)' = NumActive(k) - 1
  /\ last'.next = FirstLiveBehind(Blocked(k), i)

\* The waiters of key k in the order of their mark_blocked calls.
Waiters(k) == SelectSeq(order, LAMBDA x : downstream_host_key(x) = k)

\* ------------------------------------------------------------------- claims
\* C1 (cap invariant): with a finite cap, for callers that mark a new handle
\* active only when can_activate holds and otherwise only the handle just
\* returned by remove_and_get_blocked, num_active(d) <= cap for every key d
\* in every reachable state.
C1_CapInvariant ==
  FiniteCap => \A k \in DOMAIN host_entries_ :
                 host_entries_[k].num_active <= conn_max_per_host_

\* C1 witness: a promoted waiter has just been marked active, which fills the
\* cap again while another waiter is still blocked on the same key.
C1_Witness ==
  /\ FiniteCap
  /\ last.op = "mark_active"
  /\ last.h \in Live
  /\ NumActive(downstream_host_key(last.h)) = conn_max_per_host_
  /\ Waiters(downstream_host_key(last.h)) # << >>
  /\ deleted # {}

\* C2 (FIFO): a release that returns a handle returns the waiter of the
\* released handle's key whose mark_blocked came first among those still
\* waiting; a later waiter is never returned while an earlier one waits.
C2_Fifo ==
  [][(last'.op = "remove_and_get_blocked" /\ last'.next # nullptr)
       => /\ Waiters(downstream_host_key(last'.h)) # << >>
          /\ last'.next = Head(Waiters(downstream_host_key(last'.h)))]_vars

\* C2 witness: a release returned the first of two waiters of one key; the
\* second is still waiting.
C2_Witness ==
  /\ last.op = "remove_and_get_blocked"
  /\ last.next # nullptr
  /\ last.next \in Live
  /\ Waiters(downstream_host_key(last.next)) # << >>

\* C3 (no leak), as claimed: once every submitted handle has been passed to
\* remove_and_get_blocked, host_entries_ and downstreams_ are empty.
C3_NoLeak ==
  (deleted # {} /\ Live = {})
    => (DOMAIN host_entries_ = {} /\ downstreams_ = << >>)

\* C4 (unified mode): with unified_host_ every handle and query maps to one
\* key, so with cap 1 can_activate(b) is false once any handle is ACTIVE;
\* without it can_activate(b) is true while no handle of host b is ACTIVE.
C4_Unified ==
  /\ unified_host_ => DOMAIN host_entries_ \subseteq {""}
  /\ (last.op = "can_activate" /\ conn_max_per_host_ = 1)
       => IF unified_host_
            THEN (\E h \in Live : dispatch_state[h] = DISPATCH_ACTIVE)
                   => ~last.can
            ELSE (\A h \in Live : dispatch_state[h] = DISPATCH_ACTIVE
                                     => authority[h] # last.host)
                   => last.can

\* C4 witness: unified, cap 1, a handle of host a is ACTIVE and
\* can_activate("b") has just returned false.
C4_Witness ==
  /\ unified_host_
  /\ conn_max_per_host_ = 1
  /\ last = Call("can_activate", nullptr, "b", nullptr, FALSE, 0, "")
  /\ \E h \in Live : dispatch_state[h] = DISPATCH_ACTIVE /\ authority[h] = "a"


\* C5 (stale-link tolerance), as claimed: the next release of an ACTIVE handle
\* of the key removes every stale link of the key's blocked list, leaves
\* num_active at the decremented value and returns the first live handle
\* behind the stale link.
C5_StaleAnywhere ==
  [][\A k \in Keys : ReleasesActive(k)
       => \A i \in Stale(Blocked(k)) : StaleLinkHandled(k, i)]_vars

\* C5 (stale-link tolerance), amended: the same for a stale link that no live
\* link precedes in the blocked list.
C5_StaleAtFront ==
  [][\A k \in Keys : ReleasesActive(k)
       => \A i \in Stale(Blocked(k)) :
            (\A j \in 1..i : j \in Stale(Blocked(k)))
              => StaleLinkHandled(k, i)]_vars

\* C5 witness: a release unlinked a stale link and returned the live waiter
\* behind it.
C5_Witness ==
  /\ last.op = "remove_and_get_blocked"
  /\ last.dropped >= 1
  /\ last.next # nullptr

\* C6 (concrete scenario): cap 2, not unified, H1 H2 H3 for one host:
\* can_activate is true before each of the first two mark_active and false
\* after them; releasing H1 returns H3 with num_active 1; mark_active(H3)
\* makes it 2; releasing H2 returns none with num_active 1; releasing H3
\* returns none and erases the HostEntry.
C6_Scenario ==
  /\ scen \in {4, 6} => last.can
  /\ scen = 8 => ~last.can /\ NumActive("a") = 2
  /\ scen = 10 => last.next = 3 /\ NumActive("a") = 1
  /\ scen = 11 => NumActive("a") = 2
  /\ scen = 12 => last.next = nullptr /\ NumActive("a") = 1
  /\ scen = 13 => last.next = nullptr /\ "a" \notin DOMAIN host_entries_

\* C6 witness: the run has made every call of the scenario.
C6_Witness == scen = Len(Scenario)

\* C7 (can_activate): it returns true exactly when the key has no HostEntry
\* or the entry's num_active is below the cap, always true with the cap
\* configured as 0, and it changes nothing of the queue: no HostEntry is
\* created.
C7_CanActivate ==
  [][last'.op = "can_activate"
       => LET key == IF unified_host_ THEN "" ELSE last'.host
          IN /\ last'.can = (\/ key \notin DOMAIN host_entries_
                             \/ host_entries_[key].num_active
                                  < conn_max_per_host_)
             /\ ~FiniteCap => last'.can
             /\ UNCHANGED <<qvars, cfgvars, authority>>]_vars

\* C7 witness: can_activate returned true for a key without HostEntry while
\* another key has one, and the map still has no entry for the key.
C7_Witness ==
  /\ last.op = "can_activate"
  /\ last.can
  /\ make_host_key(last.host) \notin DOMAIN host_entries_
  /\ DOMAIN host_entries_ # {}

\* C8 (no garbage HostEntry), as claimed: between operations the map holds no
\* entry with num_active = 0 and an empty blocked list.
C8_NoGarbage ==
  \A k \in DOMAIN host_entries_ : ~host_entry_empty(host_entries_[k])

\* C9 (counter accuracy): num_active(d) is the number of handles of the
\* registry that are ACTIVE under key d, 0 without a HostEntry.
C9_CounterAccuracy ==
  \A k \in Keys : NumActive(k) = Cardinality(InState(DISPATCH_ACTIVE, k))

\* C9 witness: a release has decremented a counter that still counts two
\* ACTIVE handles.
C9_Witness ==
  /\ last.op = "remove_and_get_blocked"
  /\ \E k \in Keys : NumActive(k) = 2

\* C10 (registry): the registry holds exactly the handles submitted and not
\* yet released, each once, in submission order; a handle returned for
\* promotion is still in it.
C10_Registry ==
  /\ Registry = Live
  /\ Live \cap deleted = {}
  /\ \A i, j \in 1..Len(downstreams_) :
        i < j => downstreams_[i] < downstreams_[j]
  /\ promoted \subseteq Registry

\* C10 witness: an ACTIVE handle that was not the last of the registry was
\* released; the handle returned for promotion and another one remain.
C10_Witness ==
  /\ last.op = "remove_and_get_blocked"
  /\ last.next # nullptr
  /\ Len(downstreams_) >= 2
  /\ \E i \in 1..Len(downstreams_) : last.h < downstreams_[i]


\* ------------------------------------------------------ observers, continued
\* A step that is the call remove_and_get_blocked(h) for a live handle h.
Releases(h) ==
  /\ last'.op = "remove_and_get_blocked"
  /\ last'.h = h
  /\ h \in Live

\* The links of the blocked lists that refer to handle h, as <<key, position>>.
LinksTo(h) ==
  {ki \in Keys \X (1..MaxHandles) :
     /\ ki[2] <= Len(Blocked(ki[1]))
     /\ Blocked(ki[1])[ki[2]].downstream = h}

\* Handle h has a link in a blocked list and the link refers back to it.
HasLink(h) == blocked_link_[h] /\ Cardinality(LinksTo(h)) = 1

\* Number of stale links at the front of a blocked list.
RECURSIVE LeadingStale(_)
LeadingStale(bl) ==
  IF bl = << >> \/ Head(bl).downstream # nullptr
    THEN 0
    ELSE 1 + LeadingStale(Tail(bl))

\* ------------------------------------------------------- claims, continued
\* C11 (releasing a never-activated handle): remove_and_get_blocked(h) with h
\* not ACTIVE removes h from the registry, returns none and leaves the map as
\* it is: no HostEntry is created or erased, no num_active changes, no
\* blocked list gains or loses a link, no link of another handle changes.
C11_InactiveRelease ==
  [][\A h \in Handles :
       (Releases(h) /\ dispatch_state[h] # DISPATCH_ACTIVE)
         => /\ last'.next = nullptr
            /\ downstreams_' = SelectSeq(downstreams_, LAMBDA x : x # h)
            /\ DOMAIN host_entries_' = DOMAIN host_entries_
            /\ \A k \in DOMAIN host_entries_ :
                 /\ host_entries_'[k].num_active = host_entries_[k].num_active
                 /\ Len(host_entries_'[k].blocked)
                      = Len(host_entries_[k].blocked)
                 /\ \A i \in 1..Len(host_entries_[k].blocked) :
                      host_entries_[k].blocked[i].downstream # h
                        => host_entries_'[k].blocked[i]
                             = host_entries_[k].blocked[i]]_vars

\* C11 witness: the only handle released so far was BLOCKED: it left by the
\* not-ACTIVE return and its link is still in the list.
C11_Witness ==
  /\ last.op = "remove_and_get_blocked"
  /\ last.path = "inactive"
  /\ deleted = {last.h}
  /\ \E k \in Keys : Stale(Blocked(k)) # {} /\ NumActive(k) = 1

\* C12 (promotion hands out one waiter without activating it): a handle is
\* returned only by the release of an ACTIVE handle of the same key (so the
\* handles returned on a key never outnumber the ACTIVE handles released on
\* it); it was a live member of that key's blocked list, is unlinked from it
\* with its back-reference cleared, keeps its dispatch state, and num_active
\* is the decremented value, not incremented for it.
C12_PromotionOnly ==
  [][\A h \in Handles :
       (Releases(h) /\ last'.next # nullptr)
         => \E r \in Live, k \in Keys :
              /\ r = last'.next
              /\ k = downstream_host_key(h)
              /\ dispatch_state[h] = DISPATCH_ACTIVE
              /\ r \in Live'
              /\ downstream_host_key(r) = k
              /\ \E i \in 1..Len(Blocked(k)) : Blocked(k)[i].downstream = r
              /\ \A i \in 1..Len(Blocked(k)') :
                   Blocked(k)'[i].downstream # r
              /\ blocked_link_[r] /\ ~blocked_link_'[r]
              /\ dispatch_state'[r] = dispatch_state[r]
              /\ dispatch_state'[r] = DISPATCH_BLOCKED
              /\ NumActive(k)' = NumActive(k) - 1]_vars

\* C12 witness: a release returned a waiter, which is still BLOCKED, has no
\* link any more and waits for the caller's mark.
C12_Witness ==
  /\ last.op = "remove_and_get_blocked"
  /\ last.path = "promoted"
  /\ promoted = {last.next}
  /\ dispatch_state[last.next] = DISPATCH_BLOCKED
  /\ ~blocked_link_[last.next]

\* C13 (blocked link iff BLOCKED), as claimed: between operations a handle
\* of the registry has a link in a blocked list, referring back to it, iff
\* its dispatch state is BLOCKED, also right after it was returned for
\* promotion.
C13_LinkIffBlocked ==
  \A h \in Registry : HasLink(h) <=> dispatch_state[h] = DISPATCH_BLOCKED

\* C13, amended: the same except for a handle returned for promotion and not
\* yet marked, which is BLOCKED and has no link.
C13_LinkIffWaiting ==
  \A h \in Registry :
    /\ HasLink(h) <=> (dispatch_state[h] = DISPATCH_BLOCKED /\ h \notin promoted)
    /\ blocked_link_[h] <=> LinksTo(h) # {}
    /\ h \in promoted => dispatch_state[h] = DISPATCH_BLOCKED

\* C13 witness: one waiter has been returned for promotion, another one of
\* the same key is still linked.
C13_Witness ==
  /\ promoted # {}
  /\ \E h \in Registry : HasLink(h)

\* C14 (dispatch-state transitions), as claimed: a handle enters the queue
\* PENDING, moves from PENDING to ACTIVE, BLOCKED or FAILURE, and leaves
\* BLOCKED only for ACTIVE.
C14_Transitions ==
  [][\A h \in Handles :
       /\ (h \notin Live /\ h \in Live')
            => dispatch_state'[h] = DISPATCH_PENDING
       /\ (h \in Live /\ h \in Live' /\ dispatch_state'[h] # dispatch_state[h])
            => \/ /\ dispatch_state[h] = DISPATCH_PENDING
                  /\ dispatch_state'[h] \in
                       {DISPATCH_ACTIVE, DISPATCH_BLOCKED, DISPATCH_FAILURE}
               \/ /\ dispatch_state[h] = DISPATCH_BLOCKED
                  /\ dispatch_state'[h] = DISPATCH_ACTIVE]_vars

\* C14, amended: a handle leaves BLOCKED for ACTIVE or, when it was returned
\* for promotion and the caller calls mark_failure, for FAILURE.
C14_TransitionsOrFailure ==
  [][\A h \in Handles :
       /\ (h \notin Live /\ h \in Live')
            => dispatch_state'[h] = DISPATCH_PENDING
       /\ (h \in Live /\ h \in Live' /\ dispatch_state'[h] # dispatch_state[h])
            => \/ /\ dispatch_state[h] = DISPATCH_PENDING
                  /\ dispatch_state'[h] \in
                       {DISPATCH_ACTIVE, DISPATCH_BLOCKED, DISPATCH_FAILURE}
               \/ /\ dispatch_state[h] = DISPATCH_BLOCKED
                  /\ h \in promoted
                  /\ dispatch_state'[h] \in
                       {DISPATCH_ACTIVE, DISPATCH_FAILURE}]_vars

\* C14 witness: a handle returned for promotion has been marked active.
C14_Witness ==
  /\ last.op = "mark_active"
  /\ last.path = "promoted"
  /\ dispatch_state[last.h] = DISPATCH_ACTIVE

\* C15 (stale links dropped per call), as claimed: one call of
\* remove_and_get_blocked unlinks at most one stale link.
C15_AtMostOne == last.dropped <= 1

\* C15, amended: one call unlinks every stale link at the front of the
\* blocked list, up to the first live link, and no other stale link (the
\* links behind stay, in order; the link of a released BLOCKED handle becomes
\* stale in place); the calls that do not reach the scan unlink none.
C15_AllLeading ==
  [][\A h \in Handles :
       Releases(h)
         => \E k \in Keys, n \in 0..MaxHandles :
              /\ k = downstream_host_key(h)
              /\ n = IF ReleasesActive(k)
                       THEN LeadingStale(Blocked(k)) ELSE 0
              /\ last'.dropped = n
              /\ Len(Blocked(k)) - Len(Blocked(k)')
                   = n + (IF last'.next # nullptr THEN 1 ELSE 0)
              /\ \A i \in 1..Len(Blocked(k)') :
                   \E j \in 1..Len(Blocked(k)) :
                     /\ j = i + Len(Blocked(k)) - Len(Blocked(k)')
                     /\ Blocked(k)'[i].downstream \in
                          {Blocked(k)[j].downstream, nullptr}
                     /\ Blocked(k)[j].downstream \in
                          {Blocked(k)'[i].downstream, h}]_vars

\* C15 witness: one call unlinked two stale links.
C15_Witness ==
  /\ last.op = "remove_and_get_blocked"
  /\ last.dropped = 2

\* C16 (contract violations are fatal): mark_active on a handle that is not
\* PENDING (and was not returned for promotion) and remove_and_get_blocked on
\* a handle in state NONE end in an assertion failure and change neither a
\* num_active nor a dispatch state.
C16_Fatal ==
  [][\A h \in Handles :
       /\ (/\ last'.op = "mark_active"
           /\ last'.h = h
           /\ h \in Live
           /\ h \notin promoted
           /\ dispatch_state[h] # DISPATCH_PENDING)
            => /\ last'.path = "assert"
               /\ UNCHANGED <<host_entries_, dispatch_state>>
       /\ (/\ last'.op = "remove_and_get_blocked"
           /\ last'.h = h
           /\ h \notin Live)
            => /\ last'.path = "assert"
               /\ UNCHANGED <<host_entries_, dispatch_state>>]_vars

C18_SlotReserved ==
  FiniteCap =>
    \A k \in Keys :
      NumActive(k)
        + Cardinality({h \in promoted \cap Live : downstream_host_key(h) = k})
        <= conn_max_per_host_

\* C19 (no starvation of waiters), in its safety form, for the gating
\* caller: no state has a live handle in the blocked list of a key whose
\* num_active is 0 while no handle of the key awaits its mark after
\* promotion, nor its release after mark_failure.
C19_NoStrandedWaiter ==
  \A k \in Keys :
    (\E i \in 1..Len(Blocked(k)) : Blocked(k)[i].downstream # nullptr)
      => \/ NumActive(k) > 0
         \/ \E h \in promoted \cap Live : downstream_host_key(h) = k
         \/ InState(DISPATCH_FAILURE, k) # {}

\* C20 (the counter never underflows): whenever remove_and_get_blocked takes
\* the ACTIVE path, the HostEntry of the handle's key exists with num_active
\* >= 1, find_host_entry creates nothing and the decrement does not wrap.
C20_NoUnderflow ==
  [][\A h \in Handles, k \in Keys :
       (/\ Releases(h)
        /\ dispatch_state[h] = DISPATCH_ACTIVE
        /\ k = downstream_host_key(h))
         => /\ k \in DOMAIN host_entries_
            /\ find_host_entry(host_entries_, k) = host_entries_
            /\ host_entries_[k].num_active >= 1
            /\ NumActive(k)' = host_entries_[k].num_active - 1
            /\ NumActive(k)' < SIZE_MAX]_vars

\* C20 witness: the last ACTIVE handle of a key was released: its counter
\* went from 1 to 0 and the HostEntry was erased.
C20_Witness ==
  /\ last.op = "remove_and_get_blocked"
  /\ last.path = "erased"
  /\ host_entries_ = << >>
  /\ Len(downstreams_) = 1

====
